---- MODULE Spec2Model ----
(***************************************************************************)
(* The preprocessing pipeline of data/base_dataset.py: get_params,         *)
(* get_transform (single image) and dual_transform (image + depth map).    *)
(*                                                                         *)
(* An image is modelled by what the pipeline can change of it: its PIL     *)
(* size (w, h), whether it was converted to grayscale, mirrored, turned    *)
(* into a tensor, normalized, and the list of crop boxes cut out of it.    *)
(*                                                                         *)
(* opt.preprocess and opt.dataroot are strings that the code only tests    *)
(* with `in` (substring) and `==`.  They are modelled as sequences of the  *)
(* words between the separators ("resize_and_crop" is                      *)
(* <<"resize","and","crop">>), and `kw in s` as "kw occurs as a            *)
(* contiguous run of words of s".  No keyword of the code is a substring   *)
(* of another word used here, so the two tests agree.                      *)
(*                                                                         *)
(* Zoom factors are floats in [0.8, 1.0]; they are modelled in tenths.     *)
(***************************************************************************)
EXTENDS Integers, Sequences, FiniteSets, TLC

VARIABLES
    opt,          \* the configuration: preprocess, load_size, crop_size, no_flip, dataroot
    params,       \* the ParameterRecord given to the pipeline (a dict, or None)
    grayscale,    \* argument grayscale
    convert,      \* argument convert
    size,         \* the (w, h) of the image (and depth map) the caller passes in
    mode,         \* "none" before the first call, then "single" (get_transform) or "dual"
    pc,           \* "start", "run", "done", "error"
    todo,         \* the operations still to apply (transform_list / rest of dual_transform)
    trace,        \* the operations applied so far in this call, in order
    img,          \* the image as it stands
    depth,        \* the depth map as it stands (dual path)
    calls,        \* number of the current call in this process (1 or 2)
    first,        \* outcome of the first call, once the second call has begun
    has_printed,  \* __print_size_warning.has_printed
    printed,      \* how many times the size warning was printed
    adjusted      \* how many power-of-4 steps actually resized

vars == <<opt, params, grayscale, convert, size, mode, pc, todo, trace, img, depth,
          calls, first, has_printed, printed, adjusted>>

(***************************************************************************)
(* Bounds of the model.                                                    *)
(***************************************************************************)
MaxDim == 10      \* image sides range over MinSide..MaxDim
MaxCalls == 2     \* pipeline invocations per process

(***************************************************************************)
(* Arithmetic as Python computes it.                                       *)
(***************************************************************************)
Max(a, b) == IF a >= b THEN a ELSE b
Min(a, b) == IF a <= b THEN a ELSE b

\* Python 3 round(n / d) for n >= 0, d > 0: nearest integer, ties to the even one.
PyRoundHalfUp(n, d) == (2 * n + d) \div (2 * d)
PyRound(n, d) ==
    LET q == n \div d
        r == n % d
    IN  IF 2 * r < d THEN q
        ELSE IF 2 * r > d THEN q + 1
        ELSE IF q % 2 = 0 THEN q ELSE q + 1

\* `kw in s` on the word sequences that stand for strings.
Contains(kw, s) ==
    \E i \in 1..(Len(s) - Len(kw) + 1) : SubSeq(s, i, i + Len(kw) - 1) = kw

(***************************************************************************)
(* Images and parameter records.                                           *)
(***************************************************************************)
NewImage(w, h) ==
    [w |-> w, h |-> h, gray |-> FALSE, flipped |-> FALSE, tensor |-> FALSE,
     normalized |-> FALSE, boxes |-> <<>>]

\* PIL img.resize((w, h)) and torchvision resize: only the size changes.
Resized(im, w, h) == [im EXCEPT !.w = w, !.h = h]

\* PIL img.crop((x1, y1, x2, y2)): the result has the size of the box, whether
\* or not the box lies inside the image (the outside is filled with zeros).
Cropped(im, box) ==
    [im EXCEPT !.w = box[3] - box[1], !.h = box[4] - box[2],
               !.boxes = Append(@, box)]

\* A dict is its key set plus the values of the keys; None is none = TRUE.
\* Fields of absent keys hold the fixed values of NoParams.
NoParams ==
    [none |-> TRUE, keys |-> {}, crop_pos |-> <<0, 0>>, flip |-> FALSE,
     scale_factor |-> <<10, 10>>, patch_index |-> 0, size |-> <<4, 4>>]
EmptyDict == [NoParams EXCEPT !.none = FALSE]


\* Treating every key as absent.
NotInAlways(p, k) == TRUE

\* `k in params` guarded by `params is None or ...`
NotIn(p, k) == p.none \/ k \notin p.keys

\* A lookup that falls back to a default, like dict.get.
LookupNeverFails(p, k) == FALSE

\* params[k] raises TypeError on None and KeyError on a missing key.
LookupFails(p, k) == p.none \/ k \notin p.keys

\* The value of a call returning `img, depth` (n = 2) or a single `img` (n = 1);
\* the caller's `img, depth = ...` unpacks only the former.
Ret2(i, d) == [n |-> 2, img |-> i, depth |-> d]
Ret1(i) == [n |-> 1, img |-> i, depth |-> i]

(***************************************************************************)
(* get_params                                                              *)
(***************************************************************************)
\* The effective pre-crop size get_params assumes.
get_params_new_size(o, sz) ==
    LET w == sz[1]
        h == sz[2]
    IN  IF o.preprocess = <<"resize", "and", "crop">>
        THEN <<o.load_size, o.load_size>>
        ELSE IF o.preprocess = <<"scale", "width", "and", "crop">>
        THEN <<o.load_size, (o.load_size * h) \div w>>
        ELSE <<w, h>>

\* The set of records get_params can return: random.randint is inclusive.
get_params(o, sz) ==
    LET n == get_params_new_size(o, sz)
    IN  { [crop_pos |-> <<x, y>>, flip |-> f] :
            x \in 0..Max(0, n[1] - o.crop_size),
            y \in 0..Max(0, n[2] - o.crop_size),
            f \in BOOLEAN }

(***************************************************************************)
(* The single-image operations.                                            *)
(***************************************************************************)
\* transforms.Resize(size) / tf.resize(img, size) with a two-element size:
\* torchvision reads the sequence as (h, w), PIL's img.size is (w, h).
resize(im, osize) == Resized(im, osize[2], osize[1])


\* Forgetting the gta2cityscapes case.
resize_osize_square(o) == <<o.load_size, o.load_size>>

\* osize of the resize step.
resize_osize(o) ==
    IF Contains(<<"gta2cityscapes">>, o.dataroot)
    THEN <<o.load_size \div 2, o.load_size>>
    ELSE <<o.load_size, o.load_size>>


\* Rounding half up instead of Python's round.
make_power_2_target_half_up(n, base) == PyRoundHalfUp(n, base) * base

make_power_2_target(n, base) == PyRound(n, base) * base

make_power_2(im, base) ==
    LET h == make_power_2_target(im.h, base)
        w == make_power_2_target(im.w, base)
    IN  IF h = im.h /\ w = im.w THEN im ELSE Resized(im, w, h)

\* zoom_level in tenths; int(round(max(crop_width, iw * zoom_level))).
zoom_side(side, level, crop_width) ==
    IF side * level > 10 * crop_width THEN PyRound(side * level, 10) ELSE crop_width

random_zoom(im, crop_width, zoom_level) ==
    Resized(im, zoom_side(im.w, zoom_level[1], crop_width),
                zoom_side(im.h, zoom_level[2], crop_width))

scale_shortside_noop(im, target_width) == Min(im.w, im.h) >= target_width

scale_shortside(im, target_width) ==
    LET shortside == Min(im.w, im.h)
    IN  IF scale_shortside_noop(im, target_width) THEN im
        ELSE Resized(im, PyRound(im.w * target_width, shortside),
                         PyRound(im.h * target_width, shortside))

\* The box of __trim for the draws xstart, ystart (0 where nothing is drawn).
trim_box(im, trim_width, xstart, ystart) ==
    <<xstart, ystart,
      IF im.w > trim_width THEN xstart + trim_width ELSE im.w,
      IF im.h > trim_width THEN ystart + trim_width ELSE im.h>>

\* np.random.randint(n) draws from 0..n-1; no draw on an axis that fits.
trim_draws(side, trim_width) ==
    IF side > trim_width THEN 0..(side - trim_width - 1) ELSE {0}

trim(im, trim_width, xstart, ystart) ==
    Cropped(im, trim_box(im, trim_width, xstart, ystart))

scale_width_noop(im, target_width, crop_width) ==
    im.w = target_width /\ im.h >= crop_width

\* int(max(target_width * oh / ow, crop_width))
scale_width_height(im, target_width, crop_width) ==
    Max((target_width * im.h) \div im.w, crop_width)

scale_width(im, target_width, crop_width) ==
    IF scale_width_noop(im, target_width, crop_width) THEN im
    ELSE Resized(im, target_width, scale_width_height(im, target_width, crop_width))


\* Cropping only when both axes exceed the size.
crop_applies_both(im, sz) == im.w > sz /\ im.h > sz

crop_applies(im, sz) == im.w > sz \/ im.h > sz

crop_box(pos, sz) == <<pos[1], pos[2], pos[1] + sz, pos[2] + sz>>

crop(im, pos, sz) ==
    IF crop_applies(im, sz) THEN Cropped(im, crop_box(pos, sz)) ELSE im

\* __patch: nw * nh = 0 makes `index % (nw * nh)` raise ZeroDivisionError.
patch_fails(im, sz) == (im.w \div sz) * (im.h \div sz) = 0

patch_room(side, sz) == side - (side \div sz) * sz

patch_box(im, index, sz, startx, starty) ==
    LET nw == im.w \div sz
        nh == im.h \div sz
        idx == index % (nw * nh)
        ix == idx \div nh
        iy == idx % nh
        gridx == startx + ix * sz
        gridy == starty + iy * sz
    IN  <<gridx, gridy, gridx + sz, gridy + sz>>

patch(im, index, sz, startx, starty) ==
    Cropped(im, patch_box(im, index, sz, startx, starty))

flip(im, f) == IF f THEN [im EXCEPT !.flipped = ~@] ELSE im

\* transforms.RandomCrop(size): raises when the image is smaller than the crop,
\* else cuts a size x size box at a position drawn inside the image.
random_crop_fails(im, sz) == im.w < sz \/ im.h < sz
random_crop_positions(im, sz) == (0..(im.w - sz)) \X (0..(im.h - sz))

grayscale_op(im) == [im EXCEPT !.gray = TRUE]
to_tensor(im) == [im EXCEPT !.tensor = TRUE]
normalize(im) == [im EXCEPT !.normalized = TRUE]

(***************************************************************************)
(* The dual (image + depth) operations.  Each computes from img.size alone *)
(* and applies the same numbers to both rasters.                           *)
(***************************************************************************)

\* Rounding the image and leaving the depth map as it is.
make_power_2_dual_image_only(im, dp, base) ==
    LET h == make_power_2_target(im.h, base)
        w == make_power_2_target(im.w, base)
    IN  IF h = im.h /\ w = im.w THEN Ret2(im, dp)
        ELSE Ret2(Resized(im, w, h), dp)

make_power_2_dual(im, dp, base) ==
    LET h == make_power_2_target(im.h, base)
        w == make_power_2_target(im.w, base)
    IN  IF h = im.h /\ w = im.w THEN Ret2(im, dp)
        ELSE Ret2(Resized(im, w, h), Resized(dp, w, h))

random_zoom_dual(im, dp, crop_width, zoom_level) ==
    LET w == zoom_side(im.w, zoom_level[1], crop_width)
        h == zoom_side(im.h, zoom_level[2], crop_width)
    IN  Ret2(Resized(im, w, h), Resized(dp, w, h))

\* The no-op branch is `return img`: one value, not a pair.
scale_shortside_dual(im, dp, target_width) ==
    LET shortside == Min(im.w, im.h)
        w == PyRound(im.w * target_width, shortside)
        h == PyRound(im.h * target_width, shortside)
    IN  IF scale_shortside_noop(im, target_width) THEN Ret1(im)
        ELSE Ret2(Resized(im, w, h), Resized(dp, w, h))

trim_dual(im, dp, trim_width, xstart, ystart) ==
    LET box == trim_box(im, trim_width, xstart, ystart)
    IN  Ret2(Cropped(im, box), Cropped(dp, box))

\* The no-op branch is `return img`: one value, not a pair.
scale_width_dual(im, dp, target_width, crop_width) ==
    LET w == target_width
        h == scale_width_height(im, target_width, crop_width)
    IN  IF scale_width_noop(im, target_width, crop_width) THEN Ret1(im)
        ELSE Ret2(Resized(im, w, h), Resized(dp, w, h))

crop_dual(im, dp, pos, sz) ==
    IF crop_applies(im, sz)
    THEN Ret2(Cropped(im, crop_box(pos, sz)), Cropped(dp, crop_box(pos, sz)))
    ELSE Ret2(im, dp)

patch_dual(im, dp, index, sz, startx, starty) ==
    LET box == patch_box(im, index, sz, startx, starty)
    IN  Ret2(Cropped(im, box), Cropped(dp, box))

flip_dual(im, dp, f) ==
    IF f THEN Ret2([im EXCEPT !.flipped = ~@], [dp EXCEPT !.flipped = ~@])
    ELSE Ret2(im, dp)

grayscale_dual(im, dp) == Ret2(grayscale_op(im), dp)

resize_dual(im, dp, osize) == Ret2(resize(im, osize), resize(dp, osize))

normalize_dual(im, dp) == Ret2(normalize(im), dp)

\* One position from RandomCrop.get_params(img, ...), used for both rasters.
random_crop_dual(im, dp, sz, pos) ==
    Ret2(Cropped(im, crop_box(pos, sz)), Cropped(dp, crop_box(pos, sz)))

tensor_dual(im, dp) == Ret2(to_tensor(im), to_tensor(dp))

(***************************************************************************)
(* The order of the operations: transform_list as get_transform builds it, *)
(* and the statements dual_transform runs, for a configuration.            *)
(***************************************************************************)
Pre(o, kw) == Contains(kw, o.preprocess)

When(c, ops) == IF c THEN ops ELSE <<>>

\* Building the list with the trim step ahead of the patch step.
get_transform_list_trim_first(o, p, g, c) ==
       When(g, <<"grayscale">>)
    \o When(Pre(o, <<"fixsize">>), <<"fixsize">>)
    \o (IF Pre(o, <<"resize">>) THEN <<"resize">>
        ELSE IF Pre(o, <<"scale", "width">>) THEN <<"scale_width">>
        ELSE IF Pre(o, <<"scale", "shortside">>) THEN <<"scale_shortside">>
        ELSE <<>>)
    \o When(Pre(o, <<"zoom">>), IF p.none THEN <<"random_zoom">> ELSE <<"zoom">>)
    \o When(Pre(o, <<"crop">>),
            IF NotIn(p, "crop_pos") THEN <<"random_crop">> ELSE <<"crop">>)
    \o When(Pre(o, <<"trim">>), <<"trim">>)
    \o When(Pre(o, <<"patch">>), <<"patch">>)
    \o <<"make_power_2">>
    \o When(~o.no_flip, IF NotIn(p, "flip") THEN <<"random_flip">> ELSE <<"flip">>)
    \o When(c, <<"to_tensor", "normalize">>)

get_transform_list(o, p, g, c) ==
       When(g, <<"grayscale">>)
    \o When(Pre(o, <<"fixsize">>), <<"fixsize">>)
    \o (IF Pre(o, <<"resize">>) THEN <<"resize">>
        ELSE IF Pre(o, <<"scale", "width">>) THEN <<"scale_width">>
        ELSE IF Pre(o, <<"scale", "shortside">>) THEN <<"scale_shortside">>
        ELSE <<>>)
    \o When(Pre(o, <<"zoom">>), IF p.none THEN <<"random_zoom">> ELSE <<"zoom">>)
    \o When(Pre(o, <<"crop">>),
            IF NotIn(p, "crop_pos") THEN <<"random_crop">> ELSE <<"crop">>)
    \o When(Pre(o, <<"patch">>), <<"patch">>)
    \o When(Pre(o, <<"trim">>), <<"trim">>)
    \o <<"make_power_2">>
    \o When(~o.no_flip, IF NotIn(p, "flip") THEN <<"random_flip">> ELSE <<"flip">>)
    \o When(c, <<"to_tensor", "normalize">>)

dual_transform_list(o, p, g, c) ==
       When(g, <<"grayscale">>)
    \o When(Pre(o, <<"fixsize">>), <<"fixsize">>)
    \o (IF Pre(o, <<"resize">>) THEN <<"resize">>
        ELSE IF Pre(o, <<"scale", "width">>) THEN <<"scale_width">>
        ELSE IF Pre(o, <<"scale", "shortside">>) THEN <<"scale_shortside">>
        ELSE <<>>)
    \o When(Pre(o, <<"zoom">>), IF p.none THEN <<"random_zoom">> ELSE <<"zoom">>)
    \o When(Pre(o, <<"crop">>),
            IF NotIn(p, "crop_pos") THEN <<"random_crop">> ELSE <<"crop">>)
    \o When(Pre(o, <<"patch">>), <<"patch">>)
    \o When(Pre(o, <<"trim">>), <<"trim">>)
    \o <<"make_power_2">>
    \o When(~o.no_flip, IF NotIn(p, "flip") THEN <<"random_flip">> ELSE <<"flip">>)
    \o When(c, <<"to_tensor", "normalize">>)

\* get_transform evaluates params["size"] while it builds the list.
get_transform_fails(o, p) == Pre(o, <<"fixsize">>) /\ LookupFails(p, "size")

\* The size warning: print once, then remember (has_printed, printed).
print_size_warning(hp, n) == IF ~hp THEN <<TRUE, n + 1>> ELSE <<hp, n>>

(***************************************************************************)
(* The inputs the caller can pass.                                         *)
(***************************************************************************)
\* Sides below 3 are left out: make_power_2 rounds them to 0, an empty raster.
Sides == 3..MaxDim
\* The sides used where an operation already multiplies the cases.
FewSides == {4, 5, 6, 8}

PlainRoot == <<"datasets", "horse2zebra">>
GtaRoot == <<"datasets", "gta2cityscapes">>

\* The fields a caller adds by hand to a record.
Extras ==
    [EmptyDict EXCEPT !.keys = {"scale_factor", "patch_index", "size"},
                      !.scale_factor = <<8, 10>>, !.patch_index = 3,
                      !.size = <<6, 5>>]

ZoomLevels == {8, 10}

\* One call site: the configuration, the record the caller starts from, whether
\* it fills the record with get_params, the flags and the image size.
Caller(pre, load, crop_size, no_flip, root, p, sample, g, c, sz) ==
    [opt |-> [preprocess |-> pre, load_size |-> load, crop_size |-> crop_size,
              no_flip |-> no_flip, dataroot |-> root],
     params |-> p, sample |-> sample, grayscale |-> g, convert |-> c, size |-> sz]

\* No size-changing keyword: every size, every way of deciding the flip.
\* crop_size is not read by the pipeline here and exceeds every side.
PlainCallers ==
    { Caller(<<"none">>, 8, 16, nf, PlainRoot, p, sm, g, g, sz) :
        nf \in BOOLEAN, p \in {NoParams, EmptyDict}, sm \in BOOLEAN,
        g \in BOOLEAN, sz \in Sides \X Sides }

ResizeCallers ==
    { Caller(pre, load, cs, TRUE, root, p, sm, FALSE, FALSE, sz) :
        pre \in { <<"resize">>, <<"resize", "and", "crop">>,
                  <<"resize", "scale", "width">> },
        load \in {6, 8}, cs \in {4, 6}, root \in {PlainRoot, GtaRoot},
        p \in {NoParams, EmptyDict}, sm \in BOOLEAN, sz \in {<<5, 8>>, <<8, 8>>} }

ScaleCallers ==
    { Caller(pre, load, cs, TRUE, PlainRoot, p, sm, FALSE, FALSE, sz) :
        pre \in { <<"scale", "width">>, <<"scale", "width", "and", "crop">>,
                  <<"scale", "shortside">>,
                  <<"scale", "width", "scale", "shortside">> },
        load \in {6, 8}, cs \in {4, 6},
        p \in {NoParams, EmptyDict}, sm \in BOOLEAN, sz \in FewSides \X FewSides }

CropCallers ==
    { Caller(pre, 8, cs, TRUE, PlainRoot, p, sm, FALSE, FALSE, sz) :
        pre \in { <<"crop">>, <<"trim">> }, cs \in {4, 6},
        p \in {NoParams, EmptyDict}, sm \in BOOLEAN, sz \in FewSides \X FewSides }

RecordCallers ==
    { Caller(pre, 8, 4, TRUE, PlainRoot, p, sm, FALSE, FALSE, sz) :
        pre \in { <<"zoom">>, <<"patch">>, <<"fixsize">> },
        p \in {NoParams, EmptyDict, Extras}, sm \in BOOLEAN,
        sz \in FewSides \X FewSides }

FullCallers ==
    { Caller(<<"fixsize", "scale", "shortside", "zoom", "crop", "patch", "trim">>,
             8, 4, nf, PlainRoot, p, sm, g, c, <<6, 5>>) :
        nf \in BOOLEAN, p \in {NoParams, EmptyDict, Extras}, sm \in BOOLEAN,
        g \in BOOLEAN, c \in BOOLEAN }

Callers ==
    PlainCallers \cup ResizeCallers \cup ScaleCallers \cup CropCallers
        \cup RecordCallers \cup FullCallers

NoOutcome == [pc |-> "none", img |-> NewImage(0, 0), depth |-> NewImage(0, 0)]

Init ==
    /\ \E c \in Callers :
          /\ ~(c.sample /\ c.params.none)
          /\ opt = c.opt
          /\ params = c.params
          /\ grayscale = c.grayscale
          /\ convert = c.convert
          /\ size = c.size
          /\ pc = IF c.sample THEN "params" ELSE "start"
    /\ mode = "none"
    /\ todo = <<>>
    /\ trace = <<>>
    /\ img = NewImage(size[1], size[2])
    /\ depth = NewImage(size[1], size[2])
    /\ calls = 1
    /\ first = NoOutcome
    /\ has_printed = FALSE
    /\ printed = 0
    /\ adjusted = 0

inputs == <<opt, params, grayscale, convert, size>>
process == <<calls, first, has_printed, printed>>

(***************************************************************************)
(* The caller: get_params, then get_transform or dual_transform, and a     *)
(* second call of the same pipeline on the same inputs.                    *)
(***************************************************************************)
GetParams ==
    /\ pc = "params"
    /\ pc' = "start"
    /\ \E r \in get_params(opt, size) :
          params' = [params EXCEPT !.keys = @ \cup {"crop_pos", "flip"},
                                   !.crop_pos = r.crop_pos, !.flip = r.flip]
    /\ UNCHANGED <<opt, grayscale, convert, size, mode, todo, trace, img, depth,
                   process, adjusted>>

GetTransform ==
    /\ pc = "start" /\ mode \in {"none", "single"}
    /\ mode' = "single"
    /\ IF get_transform_fails(opt, params)
       THEN pc' = "error" /\ todo' = <<>>
       ELSE pc' = "run" /\ todo' = get_transform_list(opt, params, grayscale, convert)
    /\ UNCHANGED <<inputs, trace, img, depth, process, adjusted>>

DualTransform ==
    /\ pc = "start" /\ mode \in {"none", "dual"}
    /\ mode' = "dual"
    /\ pc' = "run"
    /\ todo' = dual_transform_list(opt, params, grayscale, convert)
    /\ UNCHANGED <<inputs, trace, img, depth, process, adjusted>>

CallAgain ==
    /\ pc \in {"done", "error"} /\ calls < MaxCalls
    /\ first' = IF calls = 1 THEN [pc |-> pc, img |-> img, depth |-> depth] ELSE first
    /\ calls' = calls + 1
    /\ pc' = "start"
    /\ todo' = <<>>
    /\ trace' = <<>>
    /\ img' = NewImage(size[1], size[2])
    /\ depth' = NewImage(size[1], size[2])
    /\ UNCHANGED <<inputs, mode, has_printed, printed, adjusted>>

(***************************************************************************)
(* One step of a running pipeline.                                         *)
(***************************************************************************)
At(m, op) == pc = "run" /\ mode = m /\ todo # <<>> /\ Head(todo) = op

Finish(i, d) ==
    /\ img' = i
    /\ depth' = d
    /\ trace' = Append(trace, Head(todo))
    /\ todo' = Tail(todo)
    /\ pc' = IF Tail(todo) = <<>> THEN "done" ELSE "run"

Raise ==
    /\ pc' = "error"
    /\ UNCHANGED <<img, depth, trace, todo>>

\* `img, depth = <call>`
Unpack(r) == IF r.n = 2 THEN Finish(r.img, r.depth) ELSE Raise

Frame == UNCHANGED <<inputs, mode, process>>

(***************************************************************************)
(* get_transform's pipeline applied to an image.                           *)
(***************************************************************************)
Grayscale ==
    /\ At("single", "grayscale")
    /\ Finish(grayscale_op(img), depth)
    /\ Frame /\ UNCHANGED adjusted

Fixsize ==
    /\ At("single", "fixsize")
    /\ Finish(resize(img, params.size), depth)
    /\ Frame /\ UNCHANGED adjusted

Resize ==
    /\ At("single", "resize")
    /\ Finish(resize(img, resize_osize(opt)), depth)
    /\ Frame /\ UNCHANGED adjusted

ScaleWidth ==
    /\ At("single", "scale_width")
    /\ Finish(scale_width(img, opt.load_size, opt.crop_size), depth)
    /\ Frame /\ UNCHANGED adjusted

ScaleShortside ==
    /\ At("single", "scale_shortside")
    /\ Finish(scale_shortside(img, opt.load_size), depth)
    /\ Frame /\ UNCHANGED adjusted

RandomZoom ==
    /\ At("single", "random_zoom")
    /\ \E zl \in ZoomLevels \X ZoomLevels :
          Finish(random_zoom(img, opt.crop_size, zl), depth)
    /\ Frame /\ UNCHANGED adjusted

Zoom ==
    /\ At("single", "zoom")
    /\ IF LookupFails(params, "scale_factor") THEN Raise
       ELSE Finish(random_zoom(img, opt.crop_size, params.scale_factor), depth)
    /\ Frame /\ UNCHANGED adjusted

Crop ==
    /\ At("single", "crop")
    /\ Finish(crop(img, params.crop_pos, opt.crop_size), depth)
    /\ Frame /\ UNCHANGED adjusted

RandomCrop ==
    /\ At("single", "random_crop")
    /\ IF random_crop_fails(img, opt.crop_size) THEN Raise
       ELSE \E pos \in random_crop_positions(img, opt.crop_size) :
               Finish(Cropped(img, crop_box(pos, opt.crop_size)), depth)
    /\ Frame /\ UNCHANGED adjusted

Patch ==
    /\ At("single", "patch")
    /\ IF LookupFails(params, "patch_index") \/ patch_fails(img, opt.crop_size) THEN Raise
       ELSE \E startx \in 0..patch_room(img.w, opt.crop_size),
               starty \in 0..patch_room(img.h, opt.crop_size) :
               Finish(patch(img, params.patch_index, opt.crop_size, startx, starty), depth)
    /\ Frame /\ UNCHANGED adjusted

Trim ==
    /\ At("single", "trim")
    /\ \E xstart \in trim_draws(img.w, opt.crop_size),
          ystart \in trim_draws(img.h, opt.crop_size) :
          Finish(trim(img, opt.crop_size, xstart, ystart), depth)
    /\ Frame /\ UNCHANGED adjusted

\* __make_power_2 resizes and never calls __print_size_warning.
MakePower2 ==
    /\ At("single", "make_power_2")
    /\ Finish(make_power_2(img, 4), depth)
    /\ adjusted' = IF make_power_2(img, 4) # img THEN adjusted + 1 ELSE adjusted
    /\ Frame

Flip ==
    /\ At("single", "flip")
    /\ Finish(flip(img, params.flip), depth)
    /\ Frame /\ UNCHANGED adjusted

RandomFlip ==
    /\ At("single", "random_flip")
    /\ \E f \in BOOLEAN : Finish(flip(img, f), depth)
    /\ Frame /\ UNCHANGED adjusted

ToTensor ==
    /\ At("single", "to_tensor")
    /\ Finish(to_tensor(img), depth)
    /\ Frame /\ UNCHANGED adjusted

Normalize ==
    /\ At("single", "normalize")
    /\ Finish(normalize(img), depth)
    /\ Frame /\ UNCHANGED adjusted

(***************************************************************************)
(* dual_transform, statement by statement.                                 *)
(***************************************************************************)
GrayscaleDual ==
    /\ At("dual", "grayscale")
    /\ Unpack(grayscale_dual(img, depth))
    /\ Frame /\ UNCHANGED adjusted

FixsizeDual ==
    /\ At("dual", "fixsize")
    /\ IF LookupFails(params, "size") THEN Raise
       ELSE Unpack(resize_dual(img, depth, params.size))
    /\ Frame /\ UNCHANGED adjusted

ResizeDual ==
    /\ At("dual", "resize")
    /\ Unpack(resize_dual(img, depth, resize_osize(opt)))
    /\ Frame /\ UNCHANGED adjusted

ScaleWidthDual ==
    /\ At("dual", "scale_width")
    /\ Unpack(scale_width_dual(img, depth, opt.load_size, opt.crop_size))
    /\ Frame /\ UNCHANGED adjusted

ScaleShortsideDual ==
    /\ At("dual", "scale_shortside")
    /\ Unpack(scale_shortside_dual(img, depth, opt.load_size))
    /\ Frame /\ UNCHANGED adjusted

RandomZoomDual ==
    /\ At("dual", "random_zoom")
    /\ \E zl \in ZoomLevels \X ZoomLevels :
          Unpack(random_zoom_dual(img, depth, opt.crop_size, zl))
    /\ Frame /\ UNCHANGED adjusted

ZoomDual ==
    /\ At("dual", "zoom")
    /\ IF LookupFails(params, "scale_factor") THEN Raise
       ELSE Unpack(random_zoom_dual(img, depth, opt.crop_size, params.scale_factor))
    /\ Frame /\ UNCHANGED adjusted

CropDual ==
    /\ At("dual", "crop")
    /\ Unpack(crop_dual(img, depth, params.crop_pos, opt.crop_size))
    /\ Frame /\ UNCHANGED adjusted

RandomCropDual ==
    /\ At("dual", "random_crop")
    /\ IF random_crop_fails(img, opt.crop_size) THEN Raise
       ELSE \E pos \in random_crop_positions(img, opt.crop_size) :
               Unpack(random_crop_dual(img, depth, opt.crop_size, pos))
    /\ Frame /\ UNCHANGED adjusted

PatchDual ==
    /\ At("dual", "patch")
    /\ IF LookupFails(params, "patch_index") \/ patch_fails(img, opt.crop_size) THEN Raise
       ELSE \E startx \in 0..patch_room(img.w, opt.crop_size),
               starty \in 0..patch_room(img.h, opt.crop_size) :
               Unpack(patch_dual(img, depth, params.patch_index, opt.crop_size,
                                 startx, starty))
    /\ Frame /\ UNCHANGED adjusted

TrimDual ==
    /\ At("dual", "trim")
    /\ \E xstart \in trim_draws(img.w, opt.crop_size),
          ystart \in trim_draws(img.h, opt.crop_size) :
          Unpack(trim_dual(img, depth, opt.crop_size, xstart, ystart))
    /\ Frame /\ UNCHANGED adjusted

\* __make_power_2_dual resizes and never calls __print_size_warning.
MakePower2Dual ==
    /\ At("dual", "make_power_2")
    /\ Unpack(make_power_2_dual(img, depth, 4))
    /\ adjusted' = IF make_power_2_dual(img, depth, 4).img # img
                   THEN adjusted + 1 ELSE adjusted
    /\ Frame

FlipDual ==
    /\ At("dual", "flip")
    /\ Unpack(flip_dual(img, depth, params.flip))
    /\ Frame /\ UNCHANGED adjusted

\* __flip_dual(img, depth, None) draws the decision itself.
RandomFlipDual ==
    /\ At("dual", "random_flip")
    /\ \E f \in BOOLEAN : Unpack(flip_dual(img, depth, f))
    /\ Frame /\ UNCHANGED adjusted

TensorDual ==
    /\ At("dual", "to_tensor")
    /\ Unpack(tensor_dual(img, depth))
    /\ Frame /\ UNCHANGED adjusted

NormalizeDual ==
    /\ At("dual", "normalize")
    /\ Unpack(normalize_dual(img, depth))
    /\ Frame /\ UNCHANGED adjusted

Next ==
    \/ GetParams \/ GetTransform \/ DualTransform \/ CallAgain
    \/ Grayscale \/ Fixsize \/ Resize \/ ScaleWidth \/ ScaleShortside
    \/ RandomZoom \/ Zoom \/ Crop \/ RandomCrop \/ Patch \/ Trim
    \/ MakePower2 \/ Flip \/ RandomFlip \/ ToTensor \/ Normalize
    \/ GrayscaleDual \/ FixsizeDual \/ ResizeDual \/ ScaleWidthDual
    \/ ScaleShortsideDual \/ RandomZoomDual \/ ZoomDual \/ CropDual
    \/ RandomCropDual \/ PatchDual \/ TrimDual \/ MakePower2Dual
    \/ FlipDual \/ RandomFlipDual \/ TensorDual \/ NormalizeDual

Spec == Init /\ [][Next]_vars

(***************************************************************************)
(* The properties checked.                                                 *)
(***************************************************************************)
LastOp == IF trace = <<>> THEN "" ELSE trace[Len(trace)]
Outcome == [pc |-> pc, img |-> img, depth |-> depth]
Returned == pc = "done"
Abs(n) == IF n >= 0 THEN n ELSE -n

SizeKeywords ==
    { <<"fixsize">>, <<"resize">>, <<"scale", "width">>, <<"scale", "shortside">>,
      <<"zoom">>, <<"crop">>, <<"patch">>, <<"trim">> }
NoSizeKeyword == \A kw \in SizeKeywords : ~Pre(opt, kw)

\* r is round(n / 4) * 4: the multiple of 4 nearest to n, and of the two
\* nearest ones the multiple of 8 when n lies halfway between them.
IsRound4(n, r) ==
    /\ r % 4 = 0
    /\ Abs(r - n) <= 2
    /\ Abs(r - n) = 2 => r % 8 = 0

\* C1: with no size-changing keyword in preprocess, the output of get_transform
\* and of dual_transform has size (round(w/4)*4, round(h/4)*4) for every input
\* size (w, h), flipped or not.
C1_PowerOf4Size ==
    (Returned /\ NoSizeKeyword) =>
        /\ IsRound4(size[1], img.w) /\ IsRound4(size[2], img.h)
        /\ mode = "dual" => (IsRound4(size[1], depth.w) /\ IsRound4(size[2], depth.h))

C1_Witness ==
    /\ Returned /\ NoSizeKeyword /\ mode = "dual"
    /\ size = <<10, 7>> /\ img.w = 8 /\ img.h = 8 /\ img.flipped

\* C2: after two calls that each resized in the power-of-4 step, the size warning
\* has been printed exactly once.
C2_WarningOnce ==
    (Returned /\ calls = 2 /\ adjusted = 2) => printed = 1

\* The record holds what get_params samples.
ExplicitRecord == ~params.none /\ {"crop_pos", "flip"} \subseteq params.keys

\* C3 as stated: with an explicit record, a second call on the same inputs ends
\* as the first one did, whatever preprocess contains.
C3_Deterministic ==
    (calls >= 2 /\ pc \in {"done", "error"} /\ ExplicitRecord) => Outcome = first

\* C3 as amended: with an explicit record and a preprocess containing neither
\* patch nor trim, a second call on the same inputs ends as the first one did.
C3_DeterministicWithoutPatchTrim ==
    (/\ calls >= 2 /\ pc \in {"done", "error"} /\ ExplicitRecord
     /\ ~Pre(opt, <<"patch">>) /\ ~Pre(opt, <<"trim">>)) => Outcome = first

C3_Witness ==
    /\ calls = 2 /\ Returned /\ ExplicitRecord
    /\ opt.preprocess = <<"crop">> /\ mode = "single"
    /\ img.boxes = <<crop_box(params.crop_pos, opt.crop_size)>>
    /\ params.crop_pos = <<2, 1>>
    /\ Outcome = first

\* C4: in dual_transform the image and the depth map have the same width and
\* height after every step, and were cut with the same boxes.
C4_DualAligned ==
    mode = "dual" =>
        /\ img.w = depth.w /\ img.h = depth.h
        /\ img.boxes = depth.boxes

C4_Witness ==
    /\ mode = "dual" /\ Returned /\ ExplicitRecord
    /\ Len(img.boxes) = 3 /\ img.flipped /\ img.w # size[1]

AfterResize == LastOp = "resize"
Gta == Contains(<<"gta2cityscapes">>, opt.dataroot)

\* C5 as stated: the resize step gives width load_size // 2 and height load_size
\* when dataroot contains gta2cityscapes, and load_size by load_size otherwise.
C5_ResizeHalvesWidth ==
    AfterResize =>
        IF Gta THEN img.w = opt.load_size \div 2 /\ img.h = opt.load_size
        ELSE img.w = opt.load_size /\ img.h = opt.load_size

\* C5 as amended: the resize step gives width load_size and height
\* load_size // 2 when dataroot contains gta2cityscapes, and load_size by
\* load_size otherwise; in dual_transform the depth map gets the same size.
C5_ResizeHalvesHeight ==
    AfterResize =>
        /\ IF Gta THEN img.w = opt.load_size /\ img.h = opt.load_size \div 2
           ELSE img.w = opt.load_size /\ img.h = opt.load_size
        /\ mode = "dual" => (depth.w = img.w /\ depth.h = img.h)

C5_Witness ==
    /\ AfterResize /\ Gta /\ mode = "dual" /\ opt.load_size = 8
    /\ img.w = 8 /\ img.h = 4 /\ depth.w = 8 /\ depth.h = 4

MissingRequired ==
    \/ Pre(opt, <<"fixsize">>) /\ (params.none \/ "size" \notin params.keys)
    \/ Pre(opt, <<"patch">>) /\ (params.none \/ "patch_index" \notin params.keys)
    \/ Pre(opt, <<"zoom">>) /\ ~params.none /\ "scale_factor" \notin params.keys

\* C6: a pipeline whose requested operation lacks its parameter never returns
\* an output: while it runs it can always take another step, and it stops only
\* in an error.
C6_MissingParameterFails ==
    MissingRequired =>
        /\ ~Returned
        /\ pc = "run" => ENABLED Next

C6_Witness ==
    /\ pc = "error" /\ opt.preprocess = <<"zoom">> /\ ExplicitRecord
    /\ "scale_factor" \notin params.keys /\ img = NewImage(size[1], size[2])

\* The operations in the order the claim lists them.
OrderOfOps ==
    <<"grayscale", "fixsize", "resize", "scale_width", "scale_shortside", "zoom",
      "crop", "patch", "trim", "make_power_2", "flip", "to_tensor", "normalize">>
Kind(op) ==
    IF op = "random_zoom" THEN "zoom"
    ELSE IF op = "random_crop" THEN "crop"
    ELSE IF op = "random_flip" THEN "flip" ELSE op
Rank(op) == CHOOSE i \in 1..Len(OrderOfOps) : OrderOfOps[i] = Kind(op)
Requested(k) ==
    CASE k = "grayscale" -> grayscale
      [] k = "fixsize" -> Pre(opt, <<"fixsize">>)
      [] k = "resize" -> Pre(opt, <<"resize">>)
      [] k = "scale_width" -> ~Pre(opt, <<"resize">>) /\ Pre(opt, <<"scale", "width">>)
      [] k = "scale_shortside" ->
            /\ ~Pre(opt, <<"resize">>) /\ ~Pre(opt, <<"scale", "width">>)
            /\ Pre(opt, <<"scale", "shortside">>)
      [] k = "zoom" -> Pre(opt, <<"zoom">>)
      [] k = "crop" -> Pre(opt, <<"crop">>)
      [] k = "patch" -> Pre(opt, <<"patch">>)
      [] k = "trim" -> Pre(opt, <<"trim">>)
      [] k = "make_power_2" -> TRUE
      [] k = "flip" -> ~opt.no_flip
      [] k = "to_tensor" -> convert
      [] k = "normalize" -> convert

\* C7: the operations run in the fixed order grayscale, fixsize, resize /
\* scale-width / scale-shortside, zoom, crop, patch, trim, power-of-4, flip,
\* tensor conversion; only requested ones run, at most one of the three
\* scalings (resize first, then scale-width), and a call that returns has run
\* every requested one, the power-of-4 step among them.
C7_FixedOrder ==
    /\ \A i, j \in 1..Len(trace) : i < j => Rank(trace[i]) < Rank(trace[j])
    /\ \A i \in 1..Len(trace) : Requested(Kind(trace[i]))
    /\ Returned =>
          \A k \in 1..Len(OrderOfOps) :
              Requested(OrderOfOps[k]) =>
                  \E i \in 1..Len(trace) : Kind(trace[i]) = OrderOfOps[k]

C7_Witness ==
    /\ Returned /\ Len(trace) = 11 /\ trace[8] = "make_power_2"

\* C8: in dual_transform a scale-width or scale-shortside step that has nothing
\* to do is not where the call stops in an error.
C8_DualNoopContinues ==
    ~ /\ mode = "dual" /\ pc = "error" /\ todo # <<>>
      /\ \/ /\ Head(todo) = "scale_width"
            /\ img.w = opt.load_size /\ img.h >= opt.crop_size
         \/ /\ Head(todo) = "scale_shortside"
            /\ Min(img.w, img.h) >= opt.load_size

AtCrop == pc = "run" /\ todo # <<>> /\ Head(todo) = "crop"

\* C9: the crop step with an explicit position leaves the image as it is only
\* when width and height are both <= crop_size; otherwise the result is the
\* crop_size x crop_size window at (x, y), also when one axis is below crop_size.
C9_CropExplicit ==
    [][ AtCrop =>
          LET cs == opt.crop_size
              x == params.crop_pos[1]
              y == params.crop_pos[2]
              window == <<x, y, x + cs, y + cs>>
          IN  IF img.w <= cs /\ img.h <= cs
              THEN img' = img /\ depth' = depth
              ELSE /\ img'.w = cs /\ img'.h = cs
                   /\ img'.boxes = Append(img.boxes, window)
                   /\ mode = "dual" =>
                        /\ depth'.w = cs /\ depth'.h = cs
                        /\ depth'.boxes = Append(depth.boxes, window) ]_vars

C9_Witness ==
    /\ opt.preprocess = <<"crop">> /\ trace = <<"crop">>
    /\ size = <<8, 5>> /\ opt.crop_size = 6 /\ params.crop_pos = <<2, 0>>
    /\ img.w = 6 /\ img.h = 6 /\ img.boxes = << <<2, 0, 8, 6>> >>

\* C10: for resize_and_crop and scale_width_and_crop and crop_size <= load_size,
\* a crop position from get_params keeps the window inside the image as it
\* stands at the crop step, on every axis where the image is at least crop_size.
C10_CropWindowInside ==
    (/\ AtCrop /\ opt.crop_size <= opt.load_size
     /\ opt.preprocess \in { <<"resize", "and", "crop">>,
                             <<"scale", "width", "and", "crop">> }) =>
        /\ img.w >= opt.crop_size => params.crop_pos[1] + opt.crop_size <= img.w
        /\ img.h >= opt.crop_size => params.crop_pos[2] + opt.crop_size <= img.h

====
